---- MODULE Spec2Model ----
(***************************************************************************)
(* A model of exiftool-vendored's worker protocol and task decoding:       *)
(*   - ExifToolProcess (src/src/exiftool_process.ts): the queue of         *)
(*     DeferredReaders, the stdout buffer and the '{ready}' framing;       *)
(*   - ReadTask (src/src/ReadTask.ts): parse's SourceFile check and the    *)
(*     timezone cascade.                                                   *)
(* Text is a sequence of one-character strings.                            *)
(***************************************************************************)
EXTENDS Naturals, Sequences, FiniteSets, TLC

VARIABLES
  \* ---- ExifToolProcess fields
  _ended,     \* private _ended
  buff,       \* private buff
  readers,    \* private readers: the queue, as indices into calls
  calls,      \* every DeferredReader ever created, in submission order
  \* ---- the child process and the console, as the supervisor sees them
  stdin,      \* what execute() wrote to proc.stdin: the call of each command
  proc,       \* "running" | "exited" (streams still draining) | "closed"
  replies,    \* the payload the worker printed for each command it ran
  stdout,     \* every byte the worker wrote to its stdout
  nread,      \* how many of them 'data' events have delivered
  nerr,       \* how many stderr chunks have arrived
  console,    \* console.log / console.error / console.dir lines
  \* ---- one ReadTask
  platform,   \* "posix" | "win32": which node:path the task runs with
  task,       \* the ReadTask: sourceFile, degroup, options
  taskData,   \* what parse() was called with
  outcome     \* what parse() returned or threw

supVars == <<_ended, buff, readers, calls, stdin, proc, replies, stdout,
             nread, nerr, console>>

taskVars == <<platform, task, taskData, outcome>>

----------------------------------------------------------------------------
\* Bounds of the model

\* calls submitted per run, the constructor's '-ver' included
MaxCalls == 2
\* stderr chunks per run
MaxErrs == 2

----------------------------------------------------------------------------
\* Text

WS == {" ", "\n"}

RECURSIVE trimStart(_)
trimStart(s) ==
  IF s = <<>> THEN s
  ELSE IF Head(s) \in WS THEN trimStart(Tail(s)) ELSE s

RECURSIVE trimEnd(_)
trimEnd(s) ==
  IF s = <<>> THEN s
  ELSE IF s[Len(s)] \in WS THEN trimEnd(SubSeq(s, 1, Len(s) - 1)) ELSE s

\* String.prototype.trim
trim(s) == trimEnd(trimStart(s))

\* String.prototype.endsWith
endsWith(s, suffix) ==
  /\ Len(s) >= Len(suffix)
  /\ SubSeq(s, Len(s) - Len(suffix) + 1, Len(s)) = suffix

\* s.slice(0, -n)
sliceEnd(s, n) == IF Len(s) >= n THEN SubSeq(s, 1, Len(s) - n) ELSE <<>>

\* private static readonly ready = '{ready}'
ready == <<"{", "r", "e", "a", "d", "y", "}">>

----------------------------------------------------------------------------
\* Output readers

\* A reader's outcome: it threw, or it returned result.  A result is its JSON
\* type, its text and (an object only) the warnings property apply() may set.
Threw == [threw |-> TRUE, type |-> "none", text |-> <<>>]
Returned(type, text) == [threw |-> FALSE, type |-> type, text |-> text]

\* const StringReader = (input) => input.trim()
StringReader(input) == Returned("string", trim(input))

AllOnes(t) == t # <<>> /\ \A i \in 1..Len(t) : t[i] = "1"

\* "[", any whitespace, "]"
EmptyArray(t) ==
  /\ Len(t) >= 2
  /\ t[1] = "["
  /\ t[Len(t)] = "]"
  /\ \A i \in 2..(Len(t) - 1) : t[i] \in WS

\* JSON.parse over the model's alphabet: whitespace around the value is
\* skipped; a run of digits is a number, "[ ]" is an (empty) array, and
\* anything else, the empty text included, is a SyntaxError.
JSONparse(input) ==
  LET t == trim(input)
  IN IF AllOnes(t) THEN Returned("number", t)
     ELSE IF EmptyArray(t) THEN Returned("object", <<"[", "]">>)
     ELSE Threw

\* const MetadataReader = (input) => JSON.parse(input)
MetadataReader(input) == JSONparse(input)

reader(name, input) ==
  IF name = "StringReader" THEN StringReader(input) ELSE MetadataReader(input)

----------------------------------------------------------------------------
\* DeferredReader

NoValue == [type |-> "none", text |-> <<>>, warnings |-> <<>>]

\* new DeferredReader(reader): the promise is pending, no warnings.  input and
\* applied record what apply() was called with, settles counts the calls of
\* _resolve and _reject, and afterEnd records whether _ended was already
\* set when the call was made.
DeferredReader(name, afterEnd) ==
  [reader   |-> name,
   state    |-> "pending",
   value    |-> NoValue,
   reason   |-> "",
   warnings |-> <<>>,
   applied  |-> FALSE,
   input    |-> <<>>,
   settles  |-> 0,
   afterEnd |-> afterEnd]

\* reject(reason): settles a pending promise; a settled one ignores it.
reject(d, reason) ==
  IF d.state = "pending"
  THEN [d EXCEPT !.state = "rejected", !.reason = reason, !.settles = @ + 1]
  ELSE [d EXCEPT !.settles = @ + 1]

\* _resolve(result)
_resolve(d, value) ==
  IF d.state = "pending"
  THEN [d EXCEPT !.state = "resolved", !.value = value, !.settles = @ + 1]
  ELSE [d EXCEPT !.settles = @ + 1]

\* addWarning(warning)
addWarning(d, warning) == [d EXCEPT !.warnings = Append(@, warning)]

\* apply(input): when the reader throws, the exception leaves apply() before
\* _resolve and nothing rejects the promise.
apply(d, input) ==
  LET result == reader(d.reader, input)
      called == [d EXCEPT !.applied = TRUE, !.input = input]
  IN IF result.threw THEN called
     ELSE _resolve(called,
                  [type     |-> result.type,
                   text     |-> result.text,
                   warnings |-> IF d.warnings # <<>> /\ result.type = "object"
                                THEN d.warnings ELSE <<>>])

\* the console.dir(this.warnings) branch of apply()
applyLogs(d, input) ==
  LET result == reader(d.reader, input)
  IN IF ~result.threw /\ d.warnings # <<>> /\ result.type # "object"
     THEN <<[line |-> "warnings", text |-> d.warnings]>>
     ELSE <<>>

----------------------------------------------------------------------------
\* ExifToolProcess

\* A close handler that fails the head of the queue only.
rejectReadersHeadOnly(cs, rs) ==
  [k \in DOMAIN cs |->
     IF rs # <<>> /\ rs[1] = k THEN reject(cs[k], "ExifTool closed") ELSE cs[k]]

\* for (const reader of this.readers) { reader.reject('ExifTool closed') }
rejectReaders(cs, rs) ==
  [k \in DOMAIN cs |->
     IF \E i \in 1..Len(rs) : rs[i] = k
     THEN reject(cs[k], "ExifTool closed")
     ELSE cs[k]]

\* execute(reader, ...cmds): a new DeferredReader is queued and the command
\* is written to stdin, whatever _ended is.
execute(name) ==
  LET id == Len(calls) + 1
  IN /\ calls' = Append(calls, DeferredReader(name, _ended))
     /\ readers' = Append(readers, id)
     /\ stdin' = Append(stdin, id)

\* An onError that attaches the chunk to the newest reader.
errorTargetNewest(rs) == rs[Len(rs)]

\* the reader a stderr chunk is attached to: this.readers[0]
errorTarget(rs) == rs[1]

\* onError(error)
onError(error) ==
  IF Len(readers) = 0
  THEN /\ console' = Append(console,
                        [line |-> "Error from ExifTool without any readers",
                         text |-> <<error>>])
       /\ UNCHANGED calls
  ELSE /\ calls' = [calls EXCEPT ![errorTarget(readers)] = addWarning(@, error)]
       /\ UNCHANGED console

\* What onData(data) makes of the buffer b: the trimmed buffer, whether it
\* ends with the sentinel, and the text before the sentinel
dataStep(b, data) ==
  [trimmed |-> trim(b \o data),
   done    |-> endsWith(trim(b \o data), ready),
   payload |-> sliceEnd(trim(b \o data), Len(ready))]

\* The texts onData hands out, in order, for chunks arriving with buffer b
RECURSIVE demux(_, _)
demux(chunks, b) ==
  IF chunks = <<>> THEN <<>>
  ELSE LET s == dataStep(b, Head(chunks))
       IN IF s.done
          THEN <<s.payload>> \o demux(Tail(chunks), <<>>)
          ELSE demux(Tail(chunks), s.trimmed)

\* onData(data)
onData(data) ==
  LET trimmed == dataStep(buff, data).trimmed
      done == dataStep(buff, data).done
      payload == dataStep(buff, data).payload
  IN IF done
     THEN /\ buff' = <<>>
          /\ IF readers # <<>>
             THEN /\ readers' = Tail(readers)
                  /\ calls' = [calls EXCEPT ![Head(readers)] = apply(@, payload)]
                  /\ console' = console \o applyLogs(calls[Head(readers)], payload)
             ELSE /\ console' = Append(console,
                                   [line |-> "No reader for payload",
                                    text |-> payload])
                  /\ UNCHANGED <<readers, calls>>
     ELSE /\ buff' = trimmed
          /\ UNCHANGED <<readers, calls, console>>

----------------------------------------------------------------------------
\* The worker

\* What the worker prints for one command, before the sentinel line: a JSON
\* array (with whitespace inside it), or text that is not JSON.
Payloads == {<<"[", " ", "]">>, <<"x">>}

\* The bytes of one reply: the payload, a newline unless the payload is
\* empty, the sentinel and a newline.
replyBytes(p) ==
  (IF p = <<>> THEN <<>> ELSE p \o <<"\n">>) \o ready \o <<"\n">>

\* the text the worker wrote for reply k before its sentinel
replyText(k) == IF replies[k] = <<>> THEN <<>> ELSE replies[k] \o <<"\n">>

RECURSIVE streamLen(_)
\* the bytes of the first k replies
streamLen(k) == IF k = 0 THEN 0 ELSE streamLen(k - 1) + Len(replyBytes(replies[k]))

\* the replies whose sentinel 'data' events have delivered in full (the
\* newline after the sentinel may still be under way)
sentinelsReceived ==
  Cardinality({k \in 1..Len(replies) : streamLen(k) - 1 <= nread})

----------------------------------------------------------------------------
\* node:path.  A path is a sequence of tokens: the separators "/" and "\",
\* the drive "C:", and names.

cwdSegments == <<<<"c">>>>

\* p split at the separators seps, empty segments kept
RECURSIVE splitPath(_, _)
splitPath(p, seps) ==
  IF p = <<>> THEN <<<<>>>>
  ELSE LET rest == splitPath(Tail(p), seps)
       IN IF Head(p) \in seps
          THEN <<<<>>>> \o rest
          ELSE <<<<Head(p)>> \o Head(rest)>> \o Tail(rest)

\* normalizeString: "" and "." are dropped, ".." drops the segment before it
RECURSIVE normalizeSegments(_, _)
normalizeSegments(segs, acc) ==
  IF segs = <<>> THEN acc
  ELSE LET seg == Head(segs)
       IN IF seg = <<>> \/ seg = <<".">>
          THEN normalizeSegments(Tail(segs), acc)
          ELSE IF seg = <<"..">>
          THEN normalizeSegments(Tail(segs),
                                 IF acc = <<>> THEN acc
                                 ELSE SubSeq(acc, 1, Len(acc) - 1))
          ELSE normalizeSegments(Tail(segs), Append(acc, seg))

RECURSIVE joinPath(_, _)
joinPath(segs, sep) ==
  IF segs = <<>> THEN <<>>
  ELSE <<sep>> \o Head(segs) \o joinPath(Tail(segs), sep)

\* path.posix.resolve(p), the working directory being /c
resolvePosix(p) ==
  LET absolute == p # <<>> /\ p[1] = "/"
      segs == normalizeSegments(
                (IF absolute THEN <<>> ELSE cwdSegments) \o splitPath(p, {"/"}),
                <<>>)
  IN IF segs = <<>> THEN <<"/">> ELSE joinPath(segs, "/")

\* path.win32.resolve(p), the working directory being C:\c
resolveWin32(p) ==
  LET rest == IF p # <<>> /\ p[1] = "C:" THEN Tail(p) ELSE p
      absolute == rest # <<>> /\ rest[1] \in {"/", "\\"}
      segs == normalizeSegments(
                (IF absolute THEN <<>> ELSE cwdSegments)
                   \o splitPath(rest, {"/", "\\"}),
                <<>>)
  IN <<"C:">> \o (IF segs = <<>> THEN <<"\\">> ELSE joinPath(segs, "\\"))

\* A resolve that returns its argument.
resolveIdentity(pf, p) == p

\* _path.resolve(p)
path_resolve(pf, p) == IF pf = "win32" THEN resolveWin32(p) ELSE resolvePosix(p)

----------------------------------------------------------------------------
\* ReadTask.  A tag key is <<group, name>>, group "" for a key without a
\* "Group:" prefix; a tag value is a sequence of tokens.

NoTz == [tz |-> "none", src |-> "none"]

\* the value of an absent tag, and what #parseTag returns for undefined
Undefined == <<"<undefined>">>

Zones == {"UTC", "Europe/Paris", "Asia/Tokyo"}

\* normalizeZone(v): the zone v names, or nothing
normalizeZone(v) == IF Len(v) = 1 /\ v[1] \in Zones THEN v[1] ELSE "none"

NoTask == [made |-> FALSE]
NoData == [kind |-> "none"]
NoOutcome == [kind |-> "none"]

\* #tagName(k)
tagName(degroup, k) == IF degroup THEN <<"", k[2]>> ELSE k

\* #rawDegrouped, as #parseTags builds it
rawDegrouped(degroup, raw) ==
  IF degroup
  THEN [n \in {tagName(degroup, k) : k \in DOMAIN raw} |->
          raw[CHOOSE k \in DOMAIN raw : tagName(degroup, k) = n]]
  ELSE raw

\* rd.name
get(rd, name) == IF <<"", name>> \in DOMAIN rd THEN rd[<<"", name>>] ELSE Undefined

\* #isVideo(): String(this.#rawDegrouped?.MIMEType).startsWith("video/")
isVideo(rd) == get(rd, "MIMEType")[1] = "video/"

\* A default that takes the option for every file but a video.
defaultToUTCForImages(options, rd) == ~isVideo(rd) /\ options.defaultVideosToUTC

\* #defaultToUTC()
defaultToUTC(options, rd) == isVideo(rd) /\ options.defaultVideosToUTC

\* parseGPSLocation(rawDegrouped, options): latitude 0 with longitude 0 is
\* invalid; otherwise the coordinates present are the result.
parseGPSLocation(rd) ==
  LET lat == get(rd, "GPSLatitude")
      lon == get(rd, "GPSLongitude")
  IN IF lat = <<"0">> /\ lon = <<"0">>
     THEN [invalid |-> TRUE, result |-> [n \in {} |-> <<>>]]
     ELSE [invalid |-> FALSE,
           result  |-> [n \in {m \in {"GPSLatitude", "GPSLongitude"} :
                                 get(rd, m) # Undefined} |-> get(rd, n)]]

\* A GPS check that calls nothing invalid.
gpsIsInvalidNever(rd) == FALSE

\* #gpsIsInvalid()
gpsIsInvalid(rd) == parseGPSLocation(rd).invalid

\* #gpsResults()
gpsResults(rd) ==
  IF gpsIsInvalid(rd) THEN [n \in {} |-> <<>>] ELSE parseGPSLocation(rd).result

\* whether #extractTzOffsetFromGps gets as far as this.options.geoTz(lat, lon)
callsGeoTz(rd) ==
  LET gps == parseGPSLocation(rd)
  IN /\ ~gps.invalid
     /\ {"GPSLatitude", "GPSLongitude"} \subseteq DOMAIN gps.result
     /\ normalizeZone(get(rd, "GeolocationTimeZone")) = "none"

\* #extractTzOffsetFromGps()
extractTzOffsetFromGps(options, rd) ==
  LET gps == parseGPSLocation(rd)
  IN IF gps.invalid \/ ~({"GPSLatitude", "GPSLongitude"} \subseteq DOMAIN gps.result)
     THEN NoTz
     ELSE IF normalizeZone(get(rd, "GeolocationTimeZone")) # "none"
     THEN [tz  |-> normalizeZone(get(rd, "GeolocationTimeZone")),
           src |-> "GeolocationTimeZone"]
     ELSE IF options.geoTz # "throw" /\ normalizeZone(<<options.geoTz>>) # "none"
     THEN [tz  |-> normalizeZone(<<options.geoTz>>),
           src |-> "GPSLatitude/GPSLongitude"]
     ELSE NoTz

\* a ?? b
orElse(a, b) == IF a # NoTz THEN a ELSE b

\* the video default, as a source
videoDefault(toUTC) ==
  IF toUTC THEN [tz |-> "UTC", src |-> "defaultVideosToUTC"] ELSE NoTz

\* A cascade that asks GPS before the explicit tags.
extractTzOffsetGpsFirst(prefer, s) ==
  orElse(s.fromGps,
  orElse(s.fromTags,
  orElse(s.fromDatestamps,
  orElse(videoDefault(s.toUTC),
  orElse(s.fromUTCOffset, s.fromTimeStamp)))))

\* A cascade that does not look at preferTimezoneInferenceFromGps.
extractTzOffsetTagsFirst(prefer, s) ==
  orElse(s.fromTags,
  orElse(s.fromGps,
  orElse(s.fromDatestamps,
  orElse(videoDefault(s.toUTC),
  orElse(s.fromUTCOffset, s.fromTimeStamp)))))

\* #extractTzOffset(), s being what each source yields
extractTzOffset(prefer, s) ==
  IF prefer /\ s.fromGps # NoTz
  THEN s.fromGps
  ELSE orElse(s.fromTags,
       orElse(s.fromGps,
       orElse(s.fromDatestamps,
       orElse(videoDefault(s.toUTC),
       orElse(s.fromUTCOffset, s.fromTimeStamp)))))

\* whether #extractTzOffset() evaluates #extractTzOffsetFromGps()
consultsGps(prefer, fromTags) == prefer \/ fromTags = NoTz

\* what each source of the cascade yields for one task over one reply
sources(t, d) ==
  LET rd == rawDegrouped(t.degroup, d.raw)
  IN [fromTags       |-> d.ext.fromTags,
      fromGps        |-> extractTzOffsetFromGps(t.options, rd),
      fromDatestamps |-> d.ext.fromDatestamps,
      toUTC          |-> defaultToUTC(t.options, rd),
      fromUTCOffset  |-> d.ext.fromUTCOffset,
      fromTimeStamp  |-> d.ext.fromTimeStamp]

\* the cascade of one task over one reply
tzSrcOf(t, d) ==
  extractTzOffset(t.options.preferTimezoneInferenceFromGps = TRUE, sources(t, d))

\* const NullIsh = ["undef", "null", "undefined"]
NullIsh == {<<"undef">>, <<"null">>, <<"undefined">>}

\* A null-ish test that does not trim.
nullishNoTrim(s) == s = Undefined \/ s \in NullIsh

\* nullish(s)
nullish(s) == s = Undefined \/ trim(s) \in NullIsh

\* const PassthroughTags
PassthroughTags ==
  {"ExifToolVersion", "DateStampMode", "Sharpness", "Firmware", "DateDisplayFormat"}

\* PassthroughTags.indexOf(tagName) >= 0
isPassthrough(tn) == tn[1] = "" /\ tn[2] \in PassthroughTags

\* tagName.startsWith("GPS") || tagName.startsWith("Geolocation"), over the
\* tag names of the model
startsWithGpsOrGeolocation(tn) ==
  /\ tn[1] = ""
  /\ tn[2] \in {"GPSLatitude", "GPSLongitude", "GeolocationTimeZone", "GPSDateTime"}

\* /Valid$/.test(tagName), over the tag names of the model
endsWithValid(tn) == tn[2] \in {"DateTimeValid"}

\* MaybeDateOrTimeRe.test(tagName): /when|date|time|subsec|creat|modif/i
MaybeDateOrTimeRe(tn) ==
  tn[2] \in {"GeolocationTimeZone", "CreateDate", "GPSDateTime", "SubSecTime",
             "DateTimeUTC", "DateTimeValid", "DateStampMode"}

\* /subsec|time/i.test(tagName)
keyIncludesTime(tn) ==
  tn[2] \in {"GeolocationTimeZone", "GPSDateTime", "SubSecTime", "DateTimeUTC",
             "DateTimeValid"}

\* /date/i.test(tagName)
keyIncludesDate(tn) ==
  tn[2] \in {"CreateDate", "GPSDateTime", "DateTimeUTC", "DateTimeValid",
             "DateStampMode"}

\* /when/i.test(tagName): no tag name of the model has it
keyIncludesWhen(tn) == tn[2] \in {}

\* isUtcTagName(tagName): tagName.includes("UTC") || tagName.startsWith("GPS")
isUtcTagName(tn) ==
  \/ tn[2] \in {"DateTimeUTC"}
  \/ tn[1] = "" /\ tn[2] \in {"GPSLatitude", "GPSLongitude", "GPSDateTime"}

\* the texts a leaf of the model may hold besides the null-ish ones
DateTimeText == <<"2020:01:01 10:00:00">>
ZonedDateTimeText == <<"2020:01:01 10:00:00", "+02:00">>
TimeText == <<"10:00:00">>
DateText == <<"2020:01:01">>
MalformedText == <<"2020:13:45 25:61:61">>
BinaryText == <<"(Binary data ", "1", " bytes, use -b option to extract)">>

\* what a decoder that throws yields
Throws == <<"<throws>">>

\* OnlyZerosRE.test(value): /^0+$/
OnlyZerosRE(value) == value # <<>> /\ \A i \in 1..Len(value) : value[i] = "0"

\* A guard that goes by the tag name alone.
isDateOrTimeLeafByName(tn, value) == MaybeDateOrTimeRe(tn)

\* MaybeDateOrTimeRe.test(tagName) && !OnlyZerosRE.test(value)
isDateOrTimeLeaf(tn, value) == MaybeDateOrTimeRe(tn) /\ ~OnlyZerosRE(value)

\* BinaryField.fromRawValue(value)
BinaryField_fromRawValue(value) ==
  IF value = BinaryText THEN <<"BinaryField", value[2]>> ELSE Undefined

\* toBoolean(value)
toBoolean(value) ==
  IF trim(value) \in {<<"1">>, <<"true">>, <<"yes">>} THEN <<"boolean", "true">>
  ELSE IF trim(value) \in {<<"0">>, <<"false">>, <<"no">>} THEN <<"boolean", "false">>
  ELSE Undefined

\* ExifDateTime.from(value, tz): a date with a time; the zone is the text's
\* own if it has one, else tz, which is then an inferred zone.
ExifDateTime_from(value, tz) ==
  IF value = MalformedText THEN Throws
  ELSE IF value = ZonedDateTimeText
  THEN <<"ExifDateTime", value[1], "UTC+2", "zone">>
  ELSE IF value = DateTimeText
  THEN <<"ExifDateTime", value[1], tz, IF tz = "none" THEN "zone" ELSE "inferredZone">>
  ELSE Undefined

\* ExifTime.fromEXIF(value, tz): a time of day; digits alone are read as one
ExifTime_fromEXIF(value, tz) ==
  IF value = TimeText \/ value \in {<<"0">>, <<"0", "0">>}
  THEN <<"ExifTime", value[1], tz>>
  ELSE Undefined

\* ExifDate.from(value)
ExifDate_from(value) ==
  IF value = DateText THEN <<"ExifDate", value[1]>> ELSE Undefined

\* result.setZone(zone)
setZone(result, zone) == [result EXCEPT ![3] = zone]

\* A choice of zone that asks backfillTimezones first.
decoderZoneBackfillFirst(t, d, tn) ==
  IF t.options.backfillTimezones THEN tzSrcOf(t, d).tz
  ELSE IF isUtcTagName(tn) \/ defaultToUTC(t.options, rawDegrouped(t.degroup, d.raw))
  THEN "UTC"
  ELSE "none"

\* the zone #parseTag hands to the decoders
decoderZone(t, d, tn) ==
  IF isUtcTagName(tn) \/ defaultToUTC(t.options, rawDegrouped(t.degroup, d.raw))
  THEN "UTC"
  ELSE IF t.options.backfillTimezones THEN tzSrcOf(t, d).tz
  ELSE "none"

\* a ?? b, of decoded values
orValue(a, b) == IF a # Undefined THEN a ELSE b

\* the decoders #parseTag tries on a date- or time-like tag, in their order
decode(tn, value, tz) ==
  LET dateTime == IF keyIncludesTime(tn) \/ keyIncludesDate(tn) \/ keyIncludesWhen(tn)
                  THEN ExifDateTime_from(value, tz) ELSE Undefined
      time     == IF keyIncludesTime(tn) \/ keyIncludesWhen(tn)
                  THEN ExifTime_fromEXIF(value, tz) ELSE Undefined
      date     == IF keyIncludesDate(tn) \/ keyIncludesWhen(tn)
                  THEN ExifDate_from(value) ELSE Undefined
  IN orValue(dateTime, orValue(time, orValue(date, value)))

\* whether #parseTag(tagName, value) gets as far as the decoders
reachesDecoders(t, d, tn, value) ==
  LET rd == rawDegrouped(t.degroup, d.raw)
  IN /\ ~nullish(value)
     /\ ~isPassthrough(tn)
     /\ ~(/\ startsWithGpsOrGeolocation(tn)
          /\ gpsIsInvalid(rd) \/ tn[2] \in DOMAIN gpsResults(rd))
     /\ BinaryField_fromRawValue(value) = Undefined
     /\ ~(endsWithValid(tn) /\ toBoolean(value) # Undefined)
     /\ isDateOrTimeLeaf(tn, value)

\* the try block of #parseTag for a string value: what it returns, or Throws
tryParseTag(t, d, tn, value) ==
  LET rd        == rawDegrouped(t.degroup, d.raw)
      result    == decode(tn, value, decoderZone(t, d, tn))
      defaultTz == tzSrcOf(t, d).tz
  IN IF isPassthrough(tn) THEN value
     ELSE IF startsWithGpsOrGeolocation(tn) /\ gpsIsInvalid(rd) THEN Undefined
     ELSE IF startsWithGpsOrGeolocation(tn) /\ tn[2] \in DOMAIN gpsResults(rd)
     THEN gpsResults(rd)[tn[2]]
     ELSE IF BinaryField_fromRawValue(value) # Undefined
     THEN BinaryField_fromRawValue(value)
     ELSE IF endsWithValid(tn) /\ toBoolean(value) # Undefined
     THEN toBoolean(value)
     ELSE IF isDateOrTimeLeaf(tn, value)
     THEN IF /\ result # Throws
             /\ t.options.backfillTimezones
             /\ defaultTz # "none"
             /\ result[1] = "ExifDateTime"
             /\ defaultToUTC(t.options, rd)
             /\ ~isUtcTagName(tn)
             /\ result[4] = "inferredZone"
          THEN setZone(result, defaultTz)
          ELSE result
     ELSE value

\* A #parseTag without its catch: what the decoder threw gets out.
parseTagNoCatch(t, d, tn, value) ==
  IF nullish(value) THEN Undefined ELSE tryParseTag(t, d, tn, value)

\* #parseTag(tagName, value).  Every value of the model is a JSON string.
parseTag(t, d, tn, value) ==
  IF nullish(value) THEN Undefined
  ELSE IF tryParseTag(t, d, tn, value) = Throws THEN value
  ELSE tryParseTag(t, d, tn, value)

\* what #parseTag(tagName, value) pushes on this.warnings
parseTagWarnings(t, d, tn, value) ==
  IF ~nullish(value) /\ tryParseTag(t, d, tn, value) = Throws
  THEN <<<<"Failed to parse ", tn[1], tn[2], " with value ">> \o value>>
  ELSE <<>>

\* lazy(thunk): how many times thunk runs when the wrapper is called so many
\* times
lazy(requests) == IF requests = 0 THEN 0 ELSE 1

\* the wrappers of ReadTask: #extractGpsMetadata, #gpsIsInvalid, #gpsResults,
\* #extractTzOffsetFromGps, #tz and #extractTzOffset are each lazy(...)
extractGpsMetadataRuns(requests) == lazy(requests)

gpsIsInvalidRuns(requests) == lazy(requests)

gpsResultsRuns(requests) == lazy(requests)

\* A GPS step that is a plain function: it runs every time it is called.
extractTzOffsetFromGpsUnwrapped(requests) == requests

extractTzOffsetFromGpsRuns(requests) == lazy(requests)

tzRuns(requests) == lazy(requests)

extractTzOffsetRuns(requests) == lazy(requests)

RECURSIVE SumOver(_, _)
SumOver(f, S) ==
  IF S = {} THEN 0
  ELSE LET k == CHOOSE x \in S : TRUE IN f[k] + SumOver(f, S \ {k})

RECURSIVE ConcatOver(_, _)
ConcatOver(f, S) ==
  IF S = {} THEN <<>>
  ELSE LET k == CHOOSE x \in S : TRUE IN f[k] \o ConcatOver(f, S \ {k})

\* how many times #parseTag(tagName, value) calls this.#tz(): once for the
\* decoders' zone when neither UTC rule applies and backfillTimezones is on,
\* once for defaultTz when the decoders returned
tzCalls(t, d, tn, value) ==
  IF ~reachesDecoders(t, d, tn, value) THEN 0
  ELSE (IF /\ ~isUtcTagName(tn)
           /\ ~defaultToUTC(t.options, rawDegrouped(t.degroup, d.raw))
           /\ t.options.backfillTimezones
        THEN 1 ELSE 0)
       + (IF decode(tn, value, decoderZone(t, d, tn)) = Throws THEN 0 ELSE 1)

\* how many times #parseTag(tagName, value) calls this.#gpsIsInvalid()
gpsIsInvalidCalls(tn, value) ==
  IF ~nullish(value) /\ ~isPassthrough(tn) /\ startsWithGpsOrGeolocation(tn)
  THEN 1 ELSE 0

\* how many times one run of #extractTzOffset calls #extractTzOffsetFromGps()
gpsStepCalls(prefer, s) ==
  (IF prefer THEN 1 ELSE 0)
  + (IF ~(prefer /\ s.fromGps # NoTz) /\ s.fromTags = NoTz THEN 1 ELSE 0)

\* how many times #parseTags() runs each computation of the task, and calls
\* the GPS step and options.geoTz
runs(t, d) ==
  LET rd       == rawDegrouped(t.degroup, d.raw)
      keys     == DOMAIN d.raw
      tn(k)    == tagName(t.degroup, k)
      gpsCalls == SumOver([k \in keys |-> gpsIsInvalidCalls(tn(k), d.raw[k])], keys)
      invalid  == gpsIsInvalidRuns(gpsCalls)
      results  == gpsResultsRuns(IF gpsIsInvalid(rd) THEN 0 ELSE gpsCalls)
      tz       == tzRuns(
                    SumOver([k \in keys |-> tzCalls(t, d, tn(k), d.raw[k])], keys))
      cascade  == extractTzOffsetRuns(1 + tz)
      stepCalls == cascade * gpsStepCalls(t.options.preferTimezoneInferenceFromGps = TRUE,
                                          sources(t, d))
      step     == extractTzOffsetFromGpsRuns(stepCalls)
  IN [gps          |-> extractGpsMetadataRuns(1 + step + invalid + results),
      cascade      |-> cascade,
      gpsStepCalls |-> stepCalls,
      gpsStep      |-> step,
      geoTz        |-> IF callsGeoTz(rd) THEN step ELSE 0]

\* what the cascade pushes on this.warnings: one warning for each call of
\* options.geoTz that throws
cascadeWarnings(t, d) ==
  [i \in 1..(IF t.options.geoTz = "throw" THEN runs(t, d).geoTz ELSE 0) |->
     <<"Failed to determine timezone from GPS coordinates: ", "error">>]

\* errorsAndWarnings(task, tags): the errors and the warnings of the task
errorsAndWarnings(errors, warnings) == [errors |-> errors, warnings |-> warnings]

SourceFileKey == <<"", "SourceFile">>

\* #parseTags(): the constructor's { SourceFile: sourceFile }, then every raw
\* tag whose parsed value is not undefined, under its own key.  decoder
\* records, for every raw tag, the zone its decoders were called with.
parseTags(t, d) ==
  LET keys == DOMAIN d.raw
      tn(k) == tagName(t.degroup, k)
      parsed(k) == parseTag(t, d, tn(k), d.raw[k])
      kept == {k \in keys : parsed(k) # Undefined}
      tzSrc == tzSrcOf(t, d)
      ew == errorsAndWarnings(
              <<>>,
              cascadeWarnings(t, d)
                \o ConcatOver([k \in keys |-> parseTagWarnings(t, d, tn(k), d.raw[k])],
                              keys))
  IN [kind     |-> "tags",
      tags     |-> [k \in {SourceFileKey} \cup kept |->
                      IF k \in kept THEN parsed(k) ELSE t.sourceFile],
      tz       |-> tzSrc.tz,
      tzSource |-> tzSrc.src,
      errors   |-> ew.errors,
      warnings |-> ew.warnings,
      decoder  |-> [k \in keys |->
                      IF reachesDecoders(t, d, tn(k), d.raw[k])
                      THEN decoderZone(t, d, tn(k)) ELSE "not called"],
      runs     |-> runs(t, d)]

Thrown(error) == [kind |-> "throw", error |-> error]

\* parse(data, err)
parse(pf, t, d) ==
  IF d.kind = "invalid JSON"
  THEN Thrown(IF d.err # "none" THEN d.err ELSE "SyntaxError")
  ELSE IF d.kind = "empty array"
  THEN Thrown("TypeError")
  ELSE IF path_resolve(pf, d.raw[SourceFileKey]) # t.sourceFile
  THEN Thrown("Internal error: unexpected SourceFile")
  ELSE parseTags(t, d)

----------------------------------------------------------------------------
\* Initial state: the constructor has spawned the worker and has called
\* execute(StringReader, '-ver').

SupInit ==
  /\ _ended = FALSE
  /\ buff = <<>>
  /\ calls = <<DeferredReader("StringReader", FALSE)>>
  /\ readers = <<1>>
  /\ stdin = <<1>>
  /\ proc = "running"
  /\ replies = <<>>
  /\ stdout = <<>>
  /\ nread = 0
  /\ nerr = 0
  /\ console = <<>>

\* No ReadTask is made while the supervisor runs.
Init ==
  /\ SupInit
  /\ platform = "posix"
  /\ task = NoTask
  /\ taskData = NoData
  /\ outcome = NoOutcome

\* read(file)
Read ==
  /\ Len(calls) < MaxCalls
  /\ execute("MetadataReader")
  /\ UNCHANGED <<_ended, buff, proc, replies, stdout, nread, nerr, console>>
  /\ UNCHANGED taskVars

\* The worker runs the next command on its stdin and prints the reply.
WorkerReply ==
  /\ proc = "running"
  /\ Len(replies) < Len(stdin)
  /\ \E p \in Payloads :
       /\ replies' = Append(replies, p)
       /\ stdout' = stdout \o replyBytes(p)
  /\ UNCHANGED <<_ended, buff, readers, calls, stdin, proc, nread, nerr, console>>
  /\ UNCHANGED taskVars

\* proc.stdout.on('data', d => this.onData(d)): the next n bytes, for any n
StdoutData ==
  /\ proc # "closed"
  /\ nread < Len(stdout)
  /\ \E n \in 1..(Len(stdout) - nread) :
       /\ onData(SubSeq(stdout, nread + 1, nread + n))
       /\ nread' = nread + n
  /\ UNCHANGED <<_ended, stdin, proc, replies, stdout, nerr>>
  /\ UNCHANGED taskVars

\* proc.stderr.on('data', d => this.onError(d)): the chunks are numbered
StderrData ==
  /\ proc # "closed"
  /\ nerr < MaxErrs
  /\ onError(nerr + 1)
  /\ nerr' = nerr + 1
  /\ UNCHANGED <<_ended, buff, readers, stdin, proc, replies, stdout, nread>>
  /\ UNCHANGED taskVars

\* The worker process ends; what it wrote is still delivered.
WorkerExit ==
  /\ proc = "running"
  /\ proc' = "exited"
  /\ UNCHANGED <<_ended, buff, readers, calls, stdin, replies, stdout, nread,
                 nerr, console>>
  /\ UNCHANGED taskVars

\* proc.on('close', ...): emitted once the process has ended and its stdio
\* streams are closed, so after the last 'data' event.
Close ==
  /\ proc = "exited"
  /\ nread = Len(stdout)
  /\ proc' = "closed"
  /\ console' = Append(console, [line |-> "ExifTool exited", text |-> <<>>])
  /\ calls' = rejectReaders(calls, readers)
  /\ _ended' = TRUE
  /\ UNCHANGED <<buff, readers, stdin, replies, stdout, nread, nerr>>
  /\ UNCHANGED taskVars

Next ==
  \/ Read
  \/ WorkerReply
  \/ StdoutData
  \/ StderrData
  \/ WorkerExit
  \/ Close

vars == <<supVars, taskVars>>

Spec == Init /\ [][Next]_vars

----------------------------------------------------------------------------
\* One ReadTask: ReadTask.for(filename, options), then parse(data, err)

FileNames ==
  {<<"f">>, <<"/", "a", "/", "f">>, <<"C:", "\\", "a", "\\", "f">>}

\* the lookups a caller may inject as options.geoTz: one that names a zone,
\* one that names none, one that throws
GeoTzLookups == {"Asia/Tokyo", "bogus", "throw"}

\* ReadTask.for(filename, options); dashG: options.readArgs holds "-G"
For ==
  /\ ~task.made
  /\ \E filename \in FileNames, dashG \in BOOLEAN, prefer \in BOOLEAN,
        toUTC \in BOOLEAN, backfill \in BOOLEAN, geoTz \in GeoTzLookups :
       task' = [made       |-> TRUE,
                sourceFile |-> path_resolve(platform, filename),
                degroup    |-> dashG,
                options    |-> [preferTimezoneInferenceFromGps |-> prefer,
                                defaultVideosToUTC             |-> toUTC,
                                backfillTimezones              |-> backfill,
                                geoTz                          |-> geoTz]]
  /\ UNCHANGED <<platform, taskData, outcome>>
  /\ UNCHANGED supVars

\* ExifTool prints Windows paths with forward slashes.
RECURSIVE flipSeparators(_)
flipSeparators(p) ==
  IF p = <<>> THEN <<>>
  ELSE <<IF Head(p) = "\\" THEN "/" ELSE Head(p)>> \o flipSeparators(Tail(p))

\* the SourceFile ExifTool prints for the file it was asked for
echoed(pf, sourceFile) ==
  IF pf = "win32" THEN flipSeparators(sourceFile) ELSE sourceFile

\* the record ExifTool prints: with -G every key but SourceFile has a group
rawOf(grouped, fields) ==
  LET keyOf(n) == <<IF grouped /\ n # "SourceFile" THEN "File" ELSE "", n>>
      present == {n \in DOMAIN fields : fields[n] # Undefined}
  IN [k \in {keyOf(n) : n \in present} |-> fields[k[2]]]

MimeTypes == {<<"image/", "jpeg">>, <<"video/", "mp4">>}
GeolocationTimeZones == {Undefined, <<"Europe/Paris">>, <<"bogus">>}
\* <<GPSLatitude, GPSLongitude>>
Coordinates ==
  {<<Undefined, Undefined>>, <<<<"0">>, <<"0">>>>, <<<<"48">>, <<"2">>>>,
   <<<<"48">>, Undefined>>}

\* What the tag bag's other tags make each helper of Timezones return.
FromTags == {NoTz, [tz |-> "UTC+1", src |-> "TimeZoneOffset"]}
FromDatestamps == {NoTz, [tz |-> "UTC+2", src |-> "offset between datestamps"]}
FromUTCOffset == {NoTz, [tz |-> "UTC+3", src |-> "UTCOffset"]}
FromTimeStamp == {NoTz, [tz |-> "UTC+4", src |-> "TimeStamp"]}

NoExt == [fromTags |-> NoTz, fromDatestamps |-> NoTz, fromUTCOffset |-> NoTz,
          fromTimeStamp |-> NoTz]

\* A further leaf of the record, as <<name, text>>: a date, a time, null-ish
\* text in lower case and not, zeros and text no decoder takes, under names
\* that are date- or time-like, UTC by name, passed through or neither.
CreateDateTexts ==
  {DateTimeText, ZonedDateTimeText, TimeText, DateText, MalformedText,
   <<"0">>, <<"0", "0">>, <<"undef">>, <<" ", "null", "\n">>,
   <<"undefined", " ">>, <<"Undef">>, <<"NULL">>, <<"foo">>}

Leaves ==
  {<<"CreateDate", v>> : v \in CreateDateTexts}
  \cup {<<"GPSDateTime", v>> : v \in {DateTimeText, <<"0", "0">>, <<"undef">>}}
  \cup {<<"SubSecTime", v>> : v \in {TimeText, <<"0", "0">>}}
  \cup {<<"DateTimeUTC", DateTimeText>>, <<"DateTimeValid", <<"0">>>>,
        <<"DateStampMode", DateTimeText>>, <<"ThumbnailImage", BinaryText>>}

Record(grouped, fields, ext) ==
  [kind |-> "record", raw |-> rawOf(grouped, fields), ext |-> ext]

\* The replies parse() is tried on: text that is not JSON (with and without
\* an error from stderr), an empty array, a record for another file, a record
\* whose SourceFile is not normalized, and every record that ExifTool may
\* print for the file asked for, with and without a further leaf.
RepliesFor(pf, t) ==
  {[kind |-> "invalid JSON", err |-> e] : e \in {"none", "stderr error"}}
  \cup {[kind |-> "empty array"]}
  \cup {Record(t.degroup,
               [SourceFile |-> sf, MIMEType |-> <<"image/", "jpeg">>,
                GeolocationTimeZone |-> Undefined,
                GPSLatitude |-> Undefined, GPSLongitude |-> Undefined],
               NoExt) :
          sf \in {<<"/", "a", "/", "g">>, <<"/", "a", "/", ".", "/", "f">>}}
  \cup {Record(t.degroup,
               [SourceFile |-> echoed(pf, t.sourceFile), MIMEType |-> mime,
                GeolocationTimeZone |-> geo,
                GPSLatitude |-> c[1], GPSLongitude |-> c[2]],
               [fromTags |-> a, fromDatestamps |-> b, fromUTCOffset |-> u,
                fromTimeStamp |-> s]) :
          mime \in MimeTypes, geo \in GeolocationTimeZones, c \in Coordinates,
          a \in FromTags, b \in FromDatestamps, u \in FromUTCOffset,
          s \in FromTimeStamp}
  \cup {Record(t.degroup,
               [SourceFile |-> echoed(pf, t.sourceFile), MIMEType |-> mime,
                GeolocationTimeZone |-> Undefined,
                GPSLatitude |-> c[1], GPSLongitude |-> c[2]] @@ (leaf[1] :> leaf[2]),
               [NoExt EXCEPT !.fromTags = a]) :
          mime \in MimeTypes, c \in {<<Undefined, Undefined>>, <<<<"0">>, <<"0">>>>},
          a \in FromTags, leaf \in Leaves}

\* parse(data, err)
Parse ==
  /\ task.made
  /\ outcome.kind = "none"
  /\ \E d \in RepliesFor(platform, task) :
       /\ taskData' = d
       /\ outcome' = parse(platform, task, d)
  /\ UNCHANGED <<platform, task>>
  /\ UNCHANGED supVars

InitRead ==
  /\ SupInit
  /\ platform \in {"posix", "win32"}
  /\ task = NoTask
  /\ taskData = NoData
  /\ outcome = NoOutcome

NextRead ==
  \/ For
  \/ Parse

SpecRead == InitRead /\ [][NextRead]_vars

----------------------------------------------------------------------------
\* WriteTask.  A value to write is [type, text, items]: text is the text of a
\* number, a string or a date, items the elements of an array or, key then
\* value, the members of a struct.  An argument is a sequence of tokens.

Scalar(type, text) == [type |-> type, text |-> text, items |-> <<>>]
Compound(type, items) == [type |-> type, text |-> <<>>, items |-> items]

\* const utfCharsetArgs
utfCharsetArgs ==
  <<<<"-charset">>, <<"filename=utf8">>, <<"-codedcharacterset=utf8">>,
    <<"-struct">>, <<"-E">>>>

\* htmlEncode(s): the characters HTML reserves become entities
RECURSIVE htmlEncode(_)
htmlEncode(s) ==
  IF s = <<>> THEN <<>>
  ELSE <<CASE Head(s) = "&" -> "&amp;"
           [] Head(s) = "<" -> "&lt;"
           [] Head(s) = ">" -> "&gt;"
           [] OTHER -> Head(s)>> \o htmlEncode(Tail(s))

\* toExifString(d): an ISO date and time in ExifTool's form
toExifString(text) ==
  IF text = <<"2020-01-01", "T", "10:00:00">>
  THEN <<"2020:01:01", " ", "10:00:00">>
  ELSE text

\* items joined by sep
RECURSIVE join(_, _)
join(items, sep) ==
  IF items = <<>> THEN <<>>
  ELSE IF Len(items) = 1 THEN items[1]
  ELSE items[1] \o <<sep>> \o join(Tail(items), sep)

\* whether enc(o) throws "cannot encode"
RECURSIVE cannotEncode(_)
cannotEncode(o) ==
  \/ o.type \notin {"null", "number", "string", "date", "array", "struct"}
  \/ \E i \in 1..Len(o.items) : cannotEncode(o.items[i])

\* enc(o)
RECURSIVE enc(_)
enc(o) ==
  CASE o.type = "null"   -> <<>>
    [] o.type = "number" -> o.text
    [] o.type = "string" -> htmlEncode(o.text)
    [] o.type = "date"   -> toExifString(o.text)
    [] o.type = "array"  ->
         <<"[">> \o join([i \in 1..Len(o.items) |-> enc(o.items[i])], ",") \o <<"]">>
    [] o.type = "struct" ->
         <<"{">>
         \o join([i \in 1..(Len(o.items) \div 2) |->
                    enc(o.items[2 * i - 1]) \o <<" = ">> \o enc(o.items[2 * i])], ",")
         \o <<"}">>

\* Array.isArray(val) ? val : [val]
toArray(val) == IF val.type = "array" THEN val.items ELSE <<val>>

\* the arguments of one tag: arr.forEach(ea => args.push(`-${key}=${enc(ea)}`))
tagArgs(key, val) ==
  [i \in 1..Len(toArray(val)) |-> <<"-", key, "=">> \o enc(toArray(val)[i])]

\* keys(tags).forEach(...), tags being <<key, value>> pairs in key order
RECURSIVE tagsArgs(_)
tagsArgs(tags) ==
  IF tags = <<>> THEN <<>>
  ELSE tagArgs(tags[1][1], tags[1][2]) \o tagsArgs(Tail(tags))

\* whether WriteTask.for throws on these tags
forThrows(tags) ==
  \E i \in 1..Len(tags) :
    \E j \in 1..Len(toArray(tags[i][2])) : cannotEncode(toArray(tags[i][2])[j])

\* A builder that puts the caller's arguments before the tags.
WriteTask_forExtrasFirst(pf, filename, tags, optionalArgs) ==
  [made       |-> TRUE,
   sourceFile |-> path_resolve(pf, filename),
   args       |-> utfCharsetArgs \o optionalArgs \o tagsArgs(tags)
                    \o <<path_resolve(pf, filename)>>]

\* WriteTask.for(filename, tags, optionalArgs)
WriteTask_for(pf, filename, tags, optionalArgs) ==
  [made       |-> TRUE,
   sourceFile |-> path_resolve(pf, filename),
   args       |-> utfCharsetArgs \o tagsArgs(tags) \o optionalArgs
                    \o <<path_resolve(pf, filename)>>]

\* A pattern that takes any one digit for the count.
successAnyCount(data) ==
  \E i \in 1..Len(data) :
    /\ data[i] \in {"0", "1", "2"}
    /\ i + 2 <= Len(data)
    /\ data[i + 1] = " image file"
    /\ \/ data[i + 2] = " updated"
       \/ i + 3 <= Len(data) /\ data[i + 2] = "s" /\ data[i + 3] = " updated"

\* successRE.exec(data) != null: /1 image files? updated/
successRE(data) ==
  \E i \in 1..Len(data) :
    /\ data[i] = "1"
    /\ i + 2 <= Len(data)
    /\ data[i + 1] = " image file"
    /\ \/ data[i + 2] = " updated"
       \/ i + 3 <= Len(data) /\ data[i + 2] = "s" /\ data[i + 3] = " updated"

\* parse(data, err) of a WriteTask whose errors are errors
WriteTask_parse(errors, data, err) ==
  IF err # "none" THEN Thrown(err)
  ELSE IF Len(errors) > 0 THEN Thrown("errors")
  ELSE IF successRE(trim(data)) THEN [kind |-> "returned"]
  ELSE Thrown("No success message")

----------------------------------------------------------------------------
\* WriteTask.for, then parse on the worker's reply

\* what there is to write: a string with reserved characters, a number, a
\* null, a date, arrays (one empty, one with an array in it), a struct and
\* a value enc cannot encode
WriteValues ==
  {Scalar("string", <<"a", "&", "b">>), Scalar("number", <<"1">>),
   Scalar("null", <<>>), Scalar("date", <<"2020-01-01", "T", "10:00:00">>),
   Compound("array", <<>>),
   Compound("array", <<Scalar("string", <<"x">>), Scalar("string", <<"<">>)>>),
   Compound("array", <<Scalar("number", <<"2">>),
                       Compound("array", <<Scalar("string", <<"y">>)>>)>>),
   Compound("struct", <<Scalar("string", <<"k">>), Scalar("number", <<"3">>)>>),
   Scalar("function", <<>>)}

\* the tags of one call, in key order
WriteTagSets ==
  {<<>>}
  \cup {<<<<k, v>>>> : k \in {"Title", "Keywords"}, v \in WriteValues}
  \cup {<<<<"Keywords", Compound("array", <<Scalar("string", <<"x">>),
                                            Scalar("string", <<"<">>)>>)>>,
          <<"Title", v>>>> : v \in WriteValues}

OptionalArgs == {<<>>, <<<<"-overwrite_original">>, <<"-P">>>>}

\* the worker's replies to a write
WriteReplies ==
  {<<"1", " image file", "s", " updated">>,
   <<" ", "1", " image file", "s", " updated", "\n">>,
   <<"1", " image file", " updated">>,
   <<"0", " image file", "s", " updated">>,
   <<"2", " image file", "s", " updated">>,
   <<"1", "1", " image file", "s", " updated">>,
   <<"1", "0", " image file", "s", " updated">>,
   <<"Warning", "\n", "1", " image file", "s", " updated">>,
   <<"Nothing to do.">>,
   <<>>}

\* WriteTask.for(filename, tags, optionalArgs); task.input keeps what it
\* was called with
WriteFor ==
  /\ ~task.made
  /\ outcome.kind = "none"
  /\ \E filename \in FileNames, tags \in WriteTagSets, optionalArgs \in OptionalArgs :
       IF forThrows(tags)
       THEN /\ outcome' = Thrown("cannot encode")
            /\ UNCHANGED task
       ELSE /\ task' = WriteTask_for(platform, filename, tags, optionalArgs)
                         @@ [input |-> [filename     |-> filename,
                                        tags         |-> tags,
                                        optionalArgs |-> optionalArgs]]
            /\ UNCHANGED outcome
  /\ UNCHANGED <<platform, taskData>>
  /\ UNCHANGED supVars

\* parse(data, err), errors being what the task accumulated before it
WriteParse ==
  /\ task.made
  /\ outcome.kind = "none"
  /\ \E data \in WriteReplies, err \in {"none", "stderr error"},
        errors \in {<<>>, <<"e">>} :
       /\ taskData' = [kind |-> "write reply", data |-> data, err |-> err,
                       errors |-> errors]
       /\ outcome' = WriteTask_parse(errors, data, err)
  /\ UNCHANGED <<platform, task>>
  /\ UNCHANGED supVars

NextWrite ==
  \/ WriteFor
  \/ WriteParse

SpecWrite == InitRead /\ [][NextWrite]_vars

----------------------------------------------------------------------------
\* Properties of ExifToolProcess

Calls == 1..Len(calls)

InQueue(k) == \E i \in 1..Len(readers) : readers[i] = k

\* text without its whitespace
noWs(s) == SelectSeq(s, LAMBDA c : c \notin WS)

\* the sentinel of reply k has been delivered in full
SentinelReceived(k) == k <= Len(replies) /\ streamLen(k) - 1 <= nread

Settled(k) == calls[k].state \in {"resolved", "rejected"}

DecodeThrows(k) == reader(calls[k].reader, calls[k].input).threw

\* C1: replies are delivered in submission order: the k-th reply the worker
\* emits is what the decode function of the k-th submitted call is given
\* (whitespace aside), and a call is given a reply only when no call
\* submitted before it is still queued.
C1_FifoDelivery ==
  \A k \in Calls :
    calls[k].applied =>
      /\ k <= Len(replies)
      /\ noWs(calls[k].input) = noWs(replies[k])
      /\ \A j \in 1..(k - 1) : ~InQueue(j)

\* C2: every call is completed exactly once: _resolve and _reject are called
\* at most once between them, and a call whose reply sentinel has been
\* received, or whose worker has closed, is resolved or rejected.
C2_CompletedExactlyOnce ==
  \A k \in Calls :
    /\ calls[k].settles <= 1
    /\ (SentinelReceived(k) \/ _ended) => Settled(k)

\* C3: once the worker has closed, every call that was queued when it closed
\* is rejected with 'ExifTool closed', and no call made after the close is
\* resolved.
C3_CloseFailsPending ==
  _ended =>
    \A k \in Calls :
      /\ (InQueue(k) /\ ~calls[k].afterEnd) =>
            calls[k].state = "rejected" /\ calls[k].reason = "ExifTool closed"
      /\ calls[k].afterEnd => calls[k].state # "resolved"

\* C3's case: the worker closed with a call queued, and a call was made after.
C3_Witness ==
  /\ _ended
  /\ \E k \in Calls : InQueue(k) /\ ~calls[k].afterEnd /\ calls[k].state = "rejected"
  /\ \E k \in Calls : calls[k].afterEnd

\* C4: a call made once _ended is set is not queued and writes nothing to the
\* worker's stdin.
C4_EndedAcceptsNoCalls ==
  \A k \in Calls :
    calls[k].afterEnd =>
      /\ ~InQueue(k)
      /\ \A i \in 1..Len(stdin) : stdin[i] # k

\* C5: at most one command has been written to the worker's stdin whose reply
\* sentinel has not been received.
C5_OneInFlight == Len(stdin) - sentinelsReceived <= 1

\* C6: a call is handed to its decode function exactly when the sentinel of
\* its own reply has been received, it is then completed, and the text it is
\* handed is the text the worker wrote before that sentinel (compared
\* without the whitespace around it, which trim() always removes).
C6_SentinelFraming ==
  \A k \in Calls :
    /\ calls[k].applied <=> SentinelReceived(k)
    /\ calls[k].applied =>
         /\ trim(calls[k].input) = trim(replyText(k))
         /\ Settled(k)

\* C7: a stderr chunk fails no call; it is appended to the warnings of the
\* call at the head of the queue when it arrives and to no other call's; with
\* no call queued it goes to the console only; a call's warnings change in no
\* other way, and a new call starts with none.
C7_StderrIsWarningOnly ==
  [][LET isErr == nerr' # nerr
         chunk == nerr'
     IN /\ \A k \in 1..Len(calls') :
             LET before == IF k <= Len(calls) THEN calls[k].warnings ELSE <<>>
             IN calls'[k].warnings =
                  IF isErr /\ readers # <<>> /\ k = readers[1]
                  THEN Append(before, chunk)
                  ELSE before
        /\ isErr =>
             /\ Len(calls') = Len(calls)
             /\ \A k \in Calls :
                  /\ calls'[k].state = calls[k].state
                  /\ calls'[k].settles = calls[k].settles
             /\ readers' = readers
             /\ console' =
                  IF readers = <<>>
                  THEN Append(console,
                              [line |-> "Error from ExifTool without any readers",
                               text |-> <<chunk>>])
                  ELSE console
    ]_vars

\* C7's case: one chunk arrived with two calls queued and went to the older,
\* and another arrived with none queued and went to the console.
C7_Witness ==
  /\ Len(calls) >= 2
  /\ calls[1].warnings # <<>>
  /\ calls[2].warnings = <<>>
  /\ \E i \in 1..Len(console) :
       console[i].line = "Error from ExifTool without any readers"

\* C8: a call whose reply its decode function cannot parse is rejected with
\* the decode error, and the supervisor does not end because of it.
C8_DecodeErrorFailsCall ==
  \A k \in Calls :
    (calls[k].applied /\ DecodeThrows(k)) =>
      /\ calls[k].state = "rejected"
      /\ calls[k].reason = "SyntaxError"

----------------------------------------------------------------------------
\* Properties of ReadTask

Accepted == outcome.kind = "tags"

\* C9: the SourceFile of the Tag Record parse returns is the path the task
\* was made for, and a record whose SourceFile resolves to another path makes
\* parse throw the internal error.
C9_SourceFileIsRequestPath ==
  /\ Accepted => outcome.tags[SourceFileKey] = task.sourceFile
  /\ (/\ outcome.kind # "none"
      /\ taskData.kind = "record"
      /\ path_resolve(platform, taskData.raw[SourceFileKey]) # task.sourceFile)
     => outcome = Thrown("Internal error: unexpected SourceFile")

\* the coordinates of the reply are present and not (0, 0)
ValidGps ==
  LET rd == rawDegrouped(task.degroup, taskData.raw)
  IN /\ get(rd, "GPSLatitude") # Undefined
     /\ get(rd, "GPSLongitude") # Undefined
     /\ ~(get(rd, "GPSLatitude") = <<"0">> /\ get(rd, "GPSLongitude") = <<"0">>)

\* what the GPS source yields for the reply: the GeolocationTimeZone tag if
\* it names a zone, else the zone the injected lookup names
GpsZone ==
  LET geo == get(rawDegrouped(task.degroup, taskData.raw), "GeolocationTimeZone")
  IN IF ~ValidGps THEN NoTz
     ELSE IF Len(geo) = 1 /\ geo[1] \in Zones
     THEN [tz |-> geo[1], src |-> "GeolocationTimeZone"]
     ELSE IF task.options.geoTz \in Zones
     THEN [tz |-> task.options.geoTz, src |-> "GPSLatitude/GPSLongitude"]
     ELSE NoTz

\* the six sources in the order of the claim
SourcesInOrder ==
  <<taskData.ext.fromTags,
    GpsZone,
    taskData.ext.fromDatestamps,
    IF /\ get(rawDegrouped(task.degroup, taskData.raw), "MIMEType")[1] = "video/"
       /\ task.options.defaultVideosToUTC
    THEN [tz |-> "UTC", src |-> "defaultVideosToUTC"] ELSE NoTz,
    taskData.ext.fromUTCOffset,
    taskData.ext.fromTimeStamp>>

\* C10: with preferTimezoneInferenceFromGps off, the record's tz and tzSource
\* are those of the first source, in the order explicit tags, GPS, paired
\* datestamps, video default, UTC offset, time stamp, that yields a zone, and
\* are not set when none does; with an explicit tag and valid GPS both
\* present, tzSource is the explicit tag's.
C10_CascadeOrder ==
  (Accepted /\ ~task.options.preferTimezoneInferenceFromGps) =>
    /\ \A i \in 1..6 :
         (SourcesInOrder[i] # NoTz /\ \A j \in 1..(i - 1) : SourcesInOrder[j] = NoTz)
           => /\ outcome.tz = SourcesInOrder[i].tz
              /\ outcome.tzSource = SourcesInOrder[i].src
    /\ (\A i \in 1..6 : SourcesInOrder[i] = NoTz)
         => outcome.tz = "none" /\ outcome.tzSource = "none"
    /\ (taskData.ext.fromTags # NoTz /\ ValidGps)
         => outcome.tzSource = taskData.ext.fromTags.src

\* C10's case: an explicit tag and a GPS zone both present, preference off.
C10_Witness ==
  /\ Accepted
  /\ ~task.options.preferTimezoneInferenceFromGps
  /\ taskData.ext.fromTags # NoTz
  /\ GpsZone # NoTz
  /\ outcome.tzSource = "TimeZoneOffset"

\* the keys of the reply, and the name of a key without its group
RawKeys == IF taskData.kind = "record" THEN DOMAIN taskData.raw ELSE {}

nameOf(k) == k[2]

\* the warnings of the record that say that tag k failed to parse
ParseWarnings(k) ==
  {i \in 1..Len(outcome.warnings) :
     /\ outcome.warnings[i][1] = "Failed to parse "
     /\ outcome.warnings[i][3] = nameOf(k)}

\* the reply's coordinates are the (0, 0) that marks GPS metadata invalid
InvalidGps ==
  LET rd == rawDegrouped(task.degroup, taskData.raw)
  IN get(rd, "GPSLatitude") = <<"0">> /\ get(rd, "GPSLongitude") = <<"0">>

\* the tag names of the model that start with GPS or with Geolocation
GpsPrefixed == {"GPSLatitude", "GPSLongitude", "GPSDateTime", "GeolocationTimeZone"}

\* C11: when the GPS metadata of a reply is invalid, the Tag Record has no
\* tag whose name starts with GPS or Geolocation, whatever the raw values
\* were, and its zone does not come from the GPS step of the cascade.
C11_InvalidGpsIsStripped ==
  (Accepted /\ InvalidGps) =>
    /\ \A k \in DOMAIN outcome.tags : nameOf(k) \notin GpsPrefixed
    /\ outcome.tzSource \notin {"GeolocationTimeZone", "GPSLatitude/GPSLongitude"}

\* C11's case: coordinates (0, 0) with a GPS date in the reply.
C11_Witness ==
  /\ Accepted
  /\ InvalidGps
  /\ \E k \in RawKeys : nameOf(k) = "GPSDateTime" /\ taskData.raw[k] = DateTimeText
  /\ \A k \in DOMAIN outcome.tags : nameOf(k) \notin GpsPrefixed

\* the tag names of the model that match when|date|time|subsec|creat|modif
DateOrTimeLike ==
  {"CreateDate", "GPSDateTime", "SubSecTime", "DateTimeUTC", "DateTimeValid",
   "DateStampMode", "GeolocationTimeZone"}

\* text in lower case, for the words of the model
toLowerCase(s) ==
  [i \in 1..Len(s) |->
     IF s[i] = "Undef" THEN "undef" ELSE IF s[i] = "NULL" THEN "null" ELSE s[i]]

NullWords == {<<"undef">>, <<"null">>, <<"undefined">>}

BadLeaves ==
  {k \in RawKeys : nameOf(k) \in DateOrTimeLike /\ taskData.raw[k] = MalformedText}

\* the reply without the tags in ks
without(d, ks) == [d EXCEPT !.raw = [k \in DOMAIN d.raw \ ks |-> d.raw[k]]]

\* C14: a leaf the decoders fail on does not abort the record: the leaf
\* keeps its raw value, one warning names the tag and the raw value, and the
\* zone and every other leaf of the record are what they are for the reply
\* without that leaf.
C14_BadLeafIsKept ==
  (outcome.kind # "none" /\ BadLeaves # {}
    /\ path_resolve(platform, taskData.raw[SourceFileKey]) = task.sourceFile) =>
    /\ Accepted
    /\ \A k \in BadLeaves :
         /\ k \in DOMAIN outcome.tags
         /\ outcome.tags[k] = taskData.raw[k]
         /\ Cardinality(ParseWarnings(k)) = 1
         /\ \A i \in ParseWarnings(k) :
              SubSeq(outcome.warnings[i], 5, Len(outcome.warnings[i])) = taskData.raw[k]
    /\ LET rest == parseTags(task, without(taskData, BadLeaves))
       IN /\ outcome.tz = rest.tz
          /\ outcome.tzSource = rest.tzSource
          /\ DOMAIN outcome.tags \ BadLeaves = DOMAIN rest.tags
          /\ \A k \in DOMAIN rest.tags : outcome.tags[k] = rest.tags[k]
          /\ Len(outcome.warnings) = Len(rest.warnings) + Cardinality(BadLeaves)

\* C14's case: a CreateDate no decoder can read, next to other leaves.
C14_Witness ==
  /\ Accepted
  /\ BadLeaves # {}
  /\ \E k \in RawKeys : nameOf(k) = "MIMEType" /\ k \in DOMAIN outcome.tags
  /\ Len(outcome.warnings) = 1

\* the reply is for a video
IsVideoReply ==
  \E k \in RawKeys : nameOf(k) = "MIMEType" /\ taskData.raw[k][1] = "video/"

\* C15: for a video, with defaultVideosToUTC on and no zone from the explicit
\* tags, GPS or the paired datestamps, tz is UTC, tzSource is
\* "defaultVideosToUTC", and the zoneless leaf "2020:01:01 10:00:00" is
\* decoded as a date and time in zone UTC.
C15_VideoDefaultsToUTC ==
  (/\ Accepted
   /\ IsVideoReply
   /\ task.options.defaultVideosToUTC
   /\ taskData.ext.fromTags = NoTz
   /\ GpsZone = NoTz
   /\ taskData.ext.fromDatestamps = NoTz) =>
    /\ outcome.tz = "UTC"
    /\ outcome.tzSource = "defaultVideosToUTC"
    /\ \A k \in RawKeys :
         (nameOf(k) \in {"CreateDate", "DateTimeUTC"} /\ taskData.raw[k] = DateTimeText)
           => /\ k \in DOMAIN outcome.tags
              /\ outcome.tags[k] =
                   <<"ExifDateTime", "2020:01:01 10:00:00", "UTC", "inferredZone">>

\* C15's case: a video's zoneless CreateDate, backfillTimezones on.
C15_Witness ==
  /\ Accepted
  /\ IsVideoReply
  /\ task.options.defaultVideosToUTC
  /\ task.options.backfillTimezones
  /\ outcome.tzSource = "defaultVideosToUTC"
  /\ \E k \in RawKeys :
       /\ nameOf(k) = "CreateDate"
       /\ taskData.raw[k] = DateTimeText
       /\ k \in DOMAIN outcome.tags
       /\ outcome.tags[k][3] = "UTC"

\* the leaves of the reply that hold zeros only under a date- or time-like name
ZeroLeaves ==
  {k \in RawKeys :
     nameOf(k) \in DateOrTimeLike /\ taskData.raw[k] \in {<<"0">>, <<"0", "0">>}}

Decoded == {"ExifDateTime", "ExifTime", "ExifDate"}

\* C16 as claimed: a leaf of zeros only under a date- or time-like name is
\* returned unchanged, and no warning is recorded.
C16_ZerosUnchanged ==
  Accepted =>
    \A k \in ZeroLeaves :
      /\ k \in DOMAIN outcome.tags
      /\ outcome.tags[k] = taskData.raw[k]
      /\ ParseWarnings(k) = {}

\* C16: a leaf of zeros only under a date- or time-like name is never decoded
\* as a date or a time and no warning is recorded for it; it is returned
\* unchanged unless its name starts with GPS or Geolocation and the GPS
\* metadata is invalid (the tag is then absent) or its name ends in Valid
\* (the text is then read as a boolean).
C16_ZerosNotDecoded ==
  Accepted =>
    \A k \in ZeroLeaves :
      /\ outcome.decoder[k] = "not called"
      /\ k \in DOMAIN outcome.tags => outcome.tags[k][1] \notin Decoded
      /\ ParseWarnings(k) = {}
      /\ (nameOf(k) \notin GpsPrefixed \cup {"DateTimeValid"})
           => k \in DOMAIN outcome.tags /\ outcome.tags[k] = taskData.raw[k]
      /\ (nameOf(k) \in GpsPrefixed)
           => IF InvalidGps THEN k \notin DOMAIN outcome.tags
              ELSE k \in DOMAIN outcome.tags /\ outcome.tags[k] = taskData.raw[k]
      /\ nameOf(k) = "DateTimeValid" => outcome.tags[k] = <<"boolean", "false">>

\* C16's case: "00" under SubSecTime, kept as it is.
C16_Witness ==
  /\ Accepted
  /\ \E k \in ZeroLeaves :
       /\ nameOf(k) = "SubSecTime"
       /\ taskData.raw[k] = <<"0", "0">>
       /\ k \in DOMAIN outcome.tags
       /\ outcome.tags[k] = <<"0", "0">>

\* C17: with preferTimezoneInferenceFromGps on, the zone of the GPS step is
\* the record's whenever the GPS step yields one, explicit tags or not; when
\* it yields none, tz and tzSource are those of the same reply with the
\* preference off.
C17_GpsPreferred ==
  (Accepted /\ task.options.preferTimezoneInferenceFromGps) =>
    /\ GpsZone # NoTz
         => outcome.tz = GpsZone.tz /\ outcome.tzSource = GpsZone.src
    /\ GpsZone = NoTz
         => LET off == [task EXCEPT !.options.preferTimezoneInferenceFromGps = FALSE]
            IN /\ outcome.tz = parse(platform, off, taskData).tz
               /\ outcome.tzSource = parse(platform, off, taskData).tzSource

\* C17's case: an explicit tag and a GPS zone both present, preference on.
C17_Witness ==
  /\ Accepted
  /\ task.options.preferTimezoneInferenceFromGps
  /\ taskData.ext.fromTags # NoTz
  /\ GpsZone # NoTz
  /\ outcome.tzSource = GpsZone.src

\* C18: the zone the date and time decoders are called with is UTC when the
\* tag name starts with GPS or contains UTC or the file is a video defaulted
\* to UTC; otherwise the zone of the cascade when backfillTimezones is on;
\* otherwise none.
C18_DecoderZone ==
  Accepted =>
    \A k \in RawKeys :
      outcome.decoder[k] # "not called" =>
        outcome.decoder[k] =
          IF \/ nameOf(k) \in {"GPSLatitude", "GPSLongitude", "GPSDateTime"}
             \/ nameOf(k) = "DateTimeUTC"
             \/ IsVideoReply /\ task.options.defaultVideosToUTC
          THEN "UTC"
          ELSE IF task.options.backfillTimezones THEN outcome.tz
          ELSE "none"

\* C18's case: all three rules were used, one of them for a name with UTC in
\* it while backfillTimezones would have given another zone.
C18_Witness ==
  /\ Accepted
  /\ task.options.backfillTimezones
  /\ outcome.tz = "UTC+1"
  /\ \E k \in RawKeys : nameOf(k) = "DateTimeUTC" /\ outcome.decoder[k] = "UTC"

\* the warnings of the record about a failed lookup of the zone of the
\* coordinates
LookupWarnings ==
  {i \in 1..Len(outcome.warnings) :
     outcome.warnings[i][1] = "Failed to determine timezone from GPS coordinates: "}

----------------------------------------------------------------------------
\* Properties of WriteTask

Parsed == taskData.kind = "write reply" /\ outcome.kind # "none"

\* the reply has "N image files updated" in it, or "N image file updated",
\* for a count N of at least 1
ReportsUpdates ==
  LET data == taskData.data
  IN \E i \in 1..Len(data) : \E j \in i..Len(data) :
       /\ \A m \in i..j : data[m] \in {"0", "1", "2"}
       /\ \E m \in i..j : data[m] # "0"
       /\ \/ SubSeq(data, j + 1, j + 2) = <<" image file", " updated">>
          \/ SubSeq(data, j + 1, j + 3) = <<" image file", "s", " updated">>

\* the reply has "1 image file updated" or "1 image files updated" in it
ReportsOneUpdate ==
  LET data == taskData.data
  IN \E i \in 1..Len(data) :
       /\ data[i] = "1"
       /\ \/ SubSeq(data, i + 1, i + 2) = <<" image file", " updated">>
          \/ SubSeq(data, i + 1, i + 3) = <<" image file", "s", " updated">>

\* C13 as claimed: a Write Task succeeds exactly when no error has
\* accumulated and the reply reports N image files updated with N at least 1.
C13_SuccessForAnyCount ==
  (Parsed /\ taskData.err = "none") =>
    (outcome.kind = "returned" <=> (taskData.errors = <<>> /\ ReportsUpdates))

\* C13: a Write Task succeeds exactly when it was handed no error, no error
\* has accumulated and the reply has "1 image file updated" or "1 image files
\* updated" in it; "0 image files updated", "2 image files updated", other
\* text, or a non-empty error list is a failure.
C13_SuccessForOneFile ==
  Parsed =>
    /\ outcome.kind = "returned" <=>
         (taskData.err = "none" /\ taskData.errors = <<>> /\ ReportsOneUpdate)
    /\ outcome.kind \in {"returned", "throw"}
    /\ (taskData.err = "none" /\ taskData.errors = <<>> /\ ~ReportsOneUpdate)
         => outcome = Thrown("No success message")

\* C13's case: "2 image files updated" with no error at all, and a failure.
C13_Witness ==
  /\ Parsed
  /\ taskData.err = "none"
  /\ taskData.errors = <<>>
  /\ taskData.data = <<"2", " image file", "s", " updated">>
  /\ outcome = Thrown("No success message")

\* every element to write, with its tag's key, in key order then array order
RECURSIVE ElementsOf(_)
ElementsOf(tags) ==
  IF tags = <<>> THEN <<>>
  ELSE LET key == tags[1][1]
           val == tags[1][2]
       IN (IF val.type = "array"
           THEN [i \in 1..Len(val.items) |-> <<key, val.items[i]>>]
           ELSE <<<<key, val>>>>)
          \o ElementsOf(Tail(tags))

\* C19: the arguments WriteTask.for builds are the five fixed charset
\* arguments, then for each tag in key order one "-name=value" argument for
\* each element of its value in array order, a scalar giving one argument,
\* then the caller's extra arguments, then the absolute path of the target.
C19_ArgumentOrder ==
  (task.made /\ "args" \in DOMAIN task) =>
    LET elements == ElementsOf(task.input.tags)
        extras   == task.input.optionalArgs
        e        == Len(elements)
    IN /\ Len(task.args) = 5 + e + Len(extras) + 1
       /\ SubSeq(task.args, 1, 5) =
            <<<<"-charset">>, <<"filename=utf8">>, <<"-codedcharacterset=utf8">>,
              <<"-struct">>, <<"-E">>>>
       /\ \A i \in 1..e :
            task.args[5 + i] = <<"-", elements[i][1], "=">> \o enc(elements[i][2])
       /\ SubSeq(task.args, 5 + e + 1, 5 + e + Len(extras)) = extras
       /\ task.args[Len(task.args)] = path_resolve(platform, task.input.filename)
       /\ task.args[Len(task.args)][1] \in {"/", "C:"}

\* C19's case: two tags, one an array of two elements, and extra arguments.
C19_Witness ==
  /\ task.made
  /\ "args" \in DOMAIN task
  /\ Len(task.input.tags) = 2
  /\ task.input.tags[2][2].type = "string"
  /\ task.input.optionalArgs # <<>>
  /\ Len(task.args) = 5 + 3 + 2 + 1
  /\ task.args[6] = <<"-", "Keywords", "=", "x">>
  /\ task.args[7] = <<"-", "Keywords", "=", "&lt;">>
  /\ task.args[8] = <<"-", "Title", "=", "a", "&amp;", "b">>

----------------------------------------------------------------------------
\* Chunking

\* the replies whose bytes 'data' events have delivered to the last one
Delivered == {j \in 0..Len(replies) : streamLen(j) = nread}

\* the same bytes, one reply to a chunk
replyChunks(j) == [k \in 1..j |-> replyBytes(replies[k])]

\* C21: what onData completes depends on the bytes the worker wrote and not
\* on how 'data' events split them: once the bytes of the first j replies
\* have arrived, in whatever chunks, the calls handed a text and the texts
\* they were handed (whitespace around them aside) are those of the same
\* bytes arriving one reply to a chunk.
C21_ChunkingIndependence ==
  \A j \in Delivered :
    LET texts == demux(replyChunks(j), <<>>)
    IN \A k \in Calls :
         /\ calls[k].applied <=> k <= Len(texts)
         /\ calls[k].applied => trim(calls[k].input) = trim(texts[k])

====
